---- MODULE Spec2Model ----
(***************************************************************************)
(* Model of the round session engine of "El Impostor" (src/src/App.tsx):   *)
(* the roster, the role/word assignment, the round state machine and the   *)
(* reveal gestures.  One action per event handler of the App component.    *)
(*                                                                         *)
(* Strings whose characters matter (player names, player ids) are          *)
(* sequences of one-character strings, so that trim() and substr() are     *)
(* computed and not assumed.                                               *)
(***************************************************************************)
EXTENDS Integers, Sequences, FiniteSets, TLC

(***************************************************************************)
(* Bounds of the model.                                                    *)
(***************************************************************************)
\* addPlayer has no upper limit; the model stops adding at MaxPlayers.
MaxPlayers == 4
\* the round counter is unbounded; NUEVA RONDA is not taken beyond MaxRound.
MaxRound == 2
\* Math.random() is modelled as k / RandRes for k in 0 .. RandRes-1.
RandRes == 4
\* drag offsets and velocities are taken within DragSpan of each threshold.
DragSpan == 2

Min(a, b) == IF a < b THEN a ELSE b

(***************************************************************************)
(* State of the App component (useState hooks, lines 21-36).               *)
(***************************************************************************)
VARIABLES
    gameState,          \* 'setup' | 'playing' | 'finished'
    gameMode,           \* 'classic' | 'uncertainty'
    players,            \* sequence of [id, name]
    impostorIndices,    \* sequence of 0-based roster positions
    currentWord,
    currentPlayerIndex,
    isRevealed,
    round,
    isPressed,
    confettiBursts,     \* confetti() calls made by the latest handler
    advances,           \* history: nextPlayer() calls since the latest startGame()
    info,               \* the drag information given to the latest handleDragEnd()
    twin                \* a second session given the same operations (TwinSpec)

vars == <<gameState, gameMode, players, impostorIndices, currentWord,
          currentPlayerIndex, isRevealed, round, isPressed, confettiBursts,
          advances, info, twin>>

(***************************************************************************)
(* The roster the component is constructed with, and resetGame restores.   *)
(***************************************************************************)
SeedPlayers ==
    << [id |-> <<"1">>, name |-> <<"J","u","g","a","d","o","r"," ","1">>],
       [id |-> <<"2">>, name |-> <<"J","u","g","a","d","o","r"," ","2">>],
       [id |-> <<"3">>, name |-> <<"J","u","g","a","d","o","r"," ","3">>] >>

\* The word list imported from './words': an opaque non-empty list.
WORDS == <<"SOL", "LUNA">>

NoInfo == [offset |-> [y |-> 0], velocity |-> [y |-> 0]]

\* the useState values of the component as one record
Session ==
    [gameState |-> gameState, gameMode |-> gameMode, players |-> players,
     impostorIndices |-> impostorIndices, currentWord |-> currentWord,
     currentPlayerIndex |-> currentPlayerIndex, isRevealed |-> isRevealed,
     round |-> round, isPressed |-> isPressed]

Init ==
    /\ gameState = "setup"
    /\ gameMode = "classic"
    /\ players = SeedPlayers
    /\ impostorIndices = <<>>
    /\ currentWord = ""
    /\ currentPlayerIndex = 0
    /\ isRevealed = FALSE
    /\ round = 1
    /\ isPressed = FALSE
    /\ confettiBursts = 0
    /\ advances = 0
    /\ info = NoInfo
    /\ twin = Session

(***************************************************************************)
(* String helpers: String.prototype.trim and String.prototype.substr.      *)
(***************************************************************************)
RECURSIVE TrimStart(_)
TrimStart(s) ==
    IF s # <<>> /\ Head(s) = " " THEN TrimStart(Tail(s)) ELSE s

RECURSIVE TrimEnd(_)
TrimEnd(s) ==
    IF s # <<>> /\ s[Len(s)] = " " THEN TrimEnd(SubSeq(s, 1, Len(s) - 1)) ELSE s

Trim(s) == TrimEnd(TrimStart(s))

\* s.substr(start, length), start counted from 0
Substr(s, start, length) == SubSeq(s, start + 1, Min(Len(s), start + length))

(***************************************************************************)
(* Math.random().toString(36).substr(2, 9) (line 40).  A random number is  *)
(* represented by the base-36 digits of its fraction; toString(36) writes  *)
(* "0." before them.  The two draws are different numbers: they differ in  *)
(* their tenth digit.                                                      *)
(***************************************************************************)
RandomFractions ==
    { <<"7","k","2","m","9","q","0","x","4","a">>,
      <<"7","k","2","m","9","q","0","x","4","b">> }

ToString36(fraction) == <<"0", ".">> \o fraction

GeneratedId(fraction) == Substr(ToString36(fraction), 2, 9)

\* Math.floor(Math.random() * n): the values it can take
RandomIndex(n) == { (k * n) \div RandRes : k \in 0 .. RandRes - 1 }

(***************************************************************************)
(* Roster operations (setup view).                                         *)
(***************************************************************************)
\* texts typed in the new-player field
TypedNames == { <<>>, <<" ">>, <<" ","A"," ">> }

\* edits made in a rename field: the player edited and the text typed
NameEdits == { [id |-> <<"1">>, name |-> <<"A">>] }

PlayerIds == { players[i].id : i \in 1 .. Len(players) }

\* players.filter(p => p.id !== id)
RECURSIVE WithoutId(_, _)
WithoutId(s, id) ==
    IF s = <<>> THEN <<>>
    ELSE IF Head(s).id # id THEN <<Head(s)>> \o WithoutId(Tail(s), id)
         ELSE WithoutId(Tail(s), id)

\* an add that stores the name as typed
addPlayerUntrimmed(newPlayerName) ==
    /\ gameState = "setup"
    /\ Len(players) < MaxPlayers
    /\ IF Trim(newPlayerName) # <<>>
       THEN \E fraction \in RandomFractions :
                players' = Append(players, [id |-> GeneratedId(fraction),
                                            name |-> newPlayerName])
       ELSE players' = players
    /\ confettiBursts' = 0
    /\ UNCHANGED <<gameState, gameMode, impostorIndices, currentWord,
                   currentPlayerIndex, isRevealed, round, isPressed, advances, info>>

\* the name field holds newPlayerName and the add button is clicked
addPlayer(newPlayerName) ==
    /\ gameState = "setup"
    /\ Len(players) < MaxPlayers
    /\ IF Trim(newPlayerName) # <<>>
       THEN \E fraction \in RandomFractions :
                players' = Append(players, [id |-> GeneratedId(fraction),
                                            name |-> Trim(newPlayerName)])
       ELSE players' = players
    /\ confettiBursts' = 0
    /\ UNCHANGED <<gameState, gameMode, impostorIndices, currentWord,
                   currentPlayerIndex, isRevealed, round, isPressed, advances, info>>

\* removePlayer with the remove buttons in the finished view as well
removePlayerAfterRound(id) ==
    /\ gameState \in {"setup", "finished"}
    /\ IF Len(players) > 3
       THEN players' = WithoutId(players, id)
       ELSE players' = players
    /\ confettiBursts' = 0
    /\ UNCHANGED <<gameState, gameMode, impostorIndices, currentWord,
                   currentPlayerIndex, isRevealed, round, isPressed, advances, info>>

removePlayer(id) ==
    /\ gameState = "setup"
    /\ IF Len(players) > 3
       THEN players' = WithoutId(players, id)
       ELSE players' = players
    /\ confettiBursts' = 0
    /\ UNCHANGED <<gameState, gameMode, impostorIndices, currentWord,
                   currentPlayerIndex, isRevealed, round, isPressed, advances, info>>

updatePlayerName(id, name) ==
    /\ gameState = "setup"
    /\ players' = [i \in 1 .. Len(players) |->
                     IF players[i].id = id
                     THEN [players[i] EXCEPT !.name = name]
                     ELSE players[i]]
    /\ confettiBursts' = 0
    /\ UNCHANGED <<gameState, gameMode, impostorIndices, currentWord,
                   currentPlayerIndex, isRevealed, round, isPressed, advances, info>>

\* a shuffle that may write one player twice and lose another
ShufflesWithRepeats(s) ==
    { [i \in 1 .. Len(s) |-> s[from[i]]] : from \in [1 .. Len(s) -> 1 .. Len(s)] }

\* the orders a sort with a random comparator can leave the array in
Shuffles(s) ==
    { [i \in 1 .. Len(s) |-> s[perm[i]]] : perm \in Permutations(1 .. Len(s)) }

shufflePlayers ==
    /\ gameState = "setup"
    /\ players' \in Shuffles(players)
    /\ confettiBursts' = 0
    /\ UNCHANGED <<gameState, gameMode, impostorIndices, currentWord,
                   currentPlayerIndex, isRevealed, round, isPressed, advances, info>>

setGameMode(mode) ==
    /\ gameState = "setup"
    /\ gameMode' = mode
    /\ confettiBursts' = 0
    /\ UNCHANGED <<gameState, players, impostorIndices, currentWord,
                   currentPlayerIndex, isRevealed, round, isPressed, advances, info>>

(***************************************************************************)
(* Role and word assignment (startGame, lines 55-84).                      *)
(***************************************************************************)
\* Array.from({ length: n }, (_, i) => i)
AllIndices(n) == [i \in 1 .. n |-> i - 1]

\* the array left by array.splice(at, 1), at counted from 0
SpliceOut(s, at) == SubSeq(s, 1, at) \o SubSeq(s, at + 2, Len(s))

\* the classic draw with the range one too wide
ClassicIndicesTooWide(n) == { <<i>> : i \in RandomIndex(n + 1) }

\* line 58: the arrays the classic branch can produce for n players
ClassicIndices(n) == { <<i>> : i \in RandomIndex(n) }

\* the impostor count drawn out of n instead of n - 1
NumImpostorsUpToAll(n) == { r + 1 : r \in RandomIndex(n) }

\* line 61: Math.floor(Math.random() * (n - 1)) + 1
NumImpostors(n) == { r + 1 : r \in RandomIndex(n - 1) }

\* lines 63-66: the arrays the loop can push, taking count elements out of allIndices
RECURSIVE DrawIndices(_, _)
DrawIndices(allIndices, count) ==
    IF count = 0 THEN { <<>> }
    ELSE UNION { { <<allIndices[randomIndex + 1]>> \o rest :
                     rest \in DrawIndices(SpliceOut(allIndices, randomIndex), count - 1) } :
                 randomIndex \in RandomIndex(Len(allIndices)) }

\* lines 60-66: the arrays the uncertainty branch can produce for n players
UncertaintyIndices(n) ==
    UNION { DrawIndices(AllIndices(n), numImpostors) : numImpostors \in NumImpostors(n) }

\* the word drawn with the range one too wide: WORDS[WORDS.length] is undefined
RandomWordsPastEnd ==
    { IF w + 1 <= Len(WORDS) THEN WORDS[w + 1] ELSE "undefined" :
          w \in RandomIndex(Len(WORDS) + 1) }

\* line 69: WORDS[Math.floor(Math.random() * WORDS.length)]
RandomWords == { WORDS[w + 1] : w \in RandomIndex(Len(WORDS)) }

\* startGame counting every round start, the first one included
startGameCountingAll ==
    /\ \/ gameState = "setup" /\ ~(Len(players) < 3)
       \/ gameState = "finished" /\ round < MaxRound
    /\ impostorIndices' \in IF gameMode = "classic"
                            THEN ClassicIndices(Len(players))
                            ELSE UncertaintyIndices(Len(players))
    /\ currentWord' \in RandomWords
    /\ currentPlayerIndex' = 0
    /\ gameState' = "playing"
    /\ isRevealed' = FALSE
    /\ isPressed' = FALSE
    /\ round' = round + 1
    /\ confettiBursts' = 0
    /\ advances' = 0
    /\ UNCHANGED <<gameMode, players, info>>

\* startGame without setIsPressed(false)
startGameKeepingPressed ==
    /\ \/ gameState = "setup" /\ ~(Len(players) < 3)
       \/ gameState = "finished" /\ round < MaxRound
    /\ impostorIndices' \in IF gameMode = "classic"
                            THEN ClassicIndices(Len(players))
                            ELSE UncertaintyIndices(Len(players))
    /\ currentWord' \in RandomWords
    /\ currentPlayerIndex' = 0
    /\ gameState' = "playing"
    /\ isRevealed' = FALSE
    /\ round' = IF gameState = "finished" THEN round + 1 ELSE round
    /\ confettiBursts' = 0
    /\ advances' = 0
    /\ UNCHANGED <<gameMode, players, info, isPressed>>

\* startGame behind a start button that is never disabled
startGameBelowThree ==
    /\ \/ gameState = "setup"
       \/ gameState = "finished" /\ round < MaxRound
    /\ impostorIndices' \in IF gameMode = "classic"
                            THEN ClassicIndices(Len(players))
                            ELSE UncertaintyIndices(Len(players))
    /\ currentWord' \in RandomWords
    /\ currentPlayerIndex' = 0
    /\ gameState' = "playing"
    /\ isRevealed' = FALSE
    /\ isPressed' = FALSE
    /\ round' = IF gameState = "finished" THEN round + 1 ELSE round
    /\ confettiBursts' = 0
    /\ advances' = 0
    /\ UNCHANGED <<gameMode, players, info>>

\* EMPEZAR PARTIDA (disabled below 3 players) and NUEVA RONDA
startGame ==
    /\ \/ gameState = "setup" /\ ~(Len(players) < 3)
       \/ gameState = "finished" /\ round < MaxRound
    /\ impostorIndices' \in IF gameMode = "classic"
                            THEN ClassicIndices(Len(players))
                            ELSE UncertaintyIndices(Len(players))
    /\ currentWord' \in RandomWords
    /\ currentPlayerIndex' = 0
    /\ gameState' = "playing"
    /\ isRevealed' = FALSE
    /\ isPressed' = FALSE
    /\ round' = IF gameState = "finished" THEN round + 1 ELSE round
    /\ confettiBursts' = 0
    /\ advances' = 0
    /\ UNCHANGED <<gameMode, players, info>>

(***************************************************************************)
(* Playing view: SIGUIENTE and MANTENER (lines 86-100, 342-361).           *)
(***************************************************************************)
\* nextPlayer finishing the round one player early
nextPlayerEndingEarly ==
    /\ gameState = "playing"
    /\ IF currentPlayerIndex < Len(players) - 2
       THEN /\ currentPlayerIndex' = currentPlayerIndex + 1
            /\ isRevealed' = FALSE
            /\ isPressed' = FALSE
            /\ confettiBursts' = 0
            /\ UNCHANGED gameState
       ELSE /\ gameState' = "finished"
            /\ confettiBursts' = 1
            /\ UNCHANGED <<currentPlayerIndex, isRevealed, isPressed>>
    /\ advances' = advances + 1
    /\ UNCHANGED <<gameMode, players, impostorIndices, currentWord, round, info>>

\* nextPlayer moving past the last player
nextPlayerPastEnd ==
    /\ gameState = "playing"
    /\ IF currentPlayerIndex < Len(players)
       THEN /\ currentPlayerIndex' = currentPlayerIndex + 1
            /\ isRevealed' = FALSE
            /\ isPressed' = FALSE
            /\ confettiBursts' = 0
            /\ UNCHANGED gameState
       ELSE /\ gameState' = "finished"
            /\ confettiBursts' = 1
            /\ UNCHANGED <<currentPlayerIndex, isRevealed, isPressed>>
    /\ advances' = advances + 1
    /\ UNCHANGED <<gameMode, players, impostorIndices, currentWord, round, info>>

\* nextPlayer firing the confetti on every turn
nextPlayerConfettiEachTurn ==
    /\ gameState = "playing"
    /\ IF currentPlayerIndex < Len(players) - 1
       THEN /\ currentPlayerIndex' = currentPlayerIndex + 1
            /\ isRevealed' = FALSE
            /\ isPressed' = FALSE
            /\ confettiBursts' = 1
            /\ UNCHANGED gameState
       ELSE /\ gameState' = "finished"
            /\ confettiBursts' = 1
            /\ UNCHANGED <<currentPlayerIndex, isRevealed, isPressed>>
    /\ advances' = advances + 1
    /\ UNCHANGED <<gameMode, players, impostorIndices, currentWord, round, info>>

\* nextPlayer with SIGUIENTE left in the finished view as well
nextPlayerAfterFinish ==
    /\ gameState \in {"playing", "finished"}
    /\ IF currentPlayerIndex < Len(players) - 1
       THEN /\ currentPlayerIndex' = currentPlayerIndex + 1
            /\ isRevealed' = FALSE
            /\ isPressed' = FALSE
            /\ confettiBursts' = 0
            /\ UNCHANGED gameState
       ELSE /\ gameState' = "finished"
            /\ confettiBursts' = 1
            /\ UNCHANGED <<currentPlayerIndex, isRevealed, isPressed>>
    /\ advances' = advances + 1
    /\ UNCHANGED <<gameMode, players, impostorIndices, currentWord, round, info>>

\* nextPlayer without setIsPressed(false)
nextPlayerKeepingPressed ==
    /\ gameState = "playing"
    /\ IF currentPlayerIndex < Len(players) - 1
       THEN /\ currentPlayerIndex' = currentPlayerIndex + 1
            /\ isRevealed' = FALSE
            /\ confettiBursts' = 0
            /\ UNCHANGED <<gameState, isPressed>>
       ELSE /\ gameState' = "finished"
            /\ confettiBursts' = 1
            /\ UNCHANGED <<currentPlayerIndex, isRevealed, isPressed>>
    /\ advances' = advances + 1
    /\ UNCHANGED <<gameMode, players, impostorIndices, currentWord, round, info>>

nextPlayer ==
    /\ gameState = "playing"
    /\ IF currentPlayerIndex < Len(players) - 1
       THEN /\ currentPlayerIndex' = currentPlayerIndex + 1
            /\ isRevealed' = FALSE
            /\ isPressed' = FALSE
            /\ confettiBursts' = 0
            /\ UNCHANGED gameState
       ELSE /\ gameState' = "finished"
            /\ confettiBursts' = 1
            /\ UNCHANGED <<currentPlayerIndex, isRevealed, isPressed>>
    /\ advances' = advances + 1
    /\ UNCHANGED <<gameMode, players, impostorIndices, currentWord, round, info>>

\* onPointerDown
pointerDown ==
    /\ gameState = "playing"
    /\ isPressed' = TRUE
    /\ confettiBursts' = 0
    /\ UNCHANGED <<gameState, gameMode, players, impostorIndices, currentWord,
                   currentPlayerIndex, isRevealed, round, advances, info>>

\* the release also hiding what a drag revealed
pointerUpHiding ==
    /\ gameState = "playing"
    /\ isPressed' = FALSE
    /\ isRevealed' = FALSE
    /\ confettiBursts' = 0
    /\ UNCHANGED <<gameState, gameMode, players, impostorIndices, currentWord,
                   currentPlayerIndex, round, advances, info>>

\* onPointerUp, onPointerLeave
pointerUp ==
    /\ gameState = "playing"
    /\ isPressed' = FALSE
    /\ confettiBursts' = 0
    /\ UNCHANGED <<gameState, gameMode, players, impostorIndices, currentWord,
                   currentPlayerIndex, isRevealed, round, advances, info>>

(***************************************************************************)
(* Finished view: VOLVER AL INICIO (lines 108-115, 431-436).               *)
(***************************************************************************)
\* resetGame leaving the roster as it is
resetGameKeepingRoster ==
    /\ gameState = "finished"
    /\ gameState' = "setup"
    /\ confettiBursts' = 0
    /\ UNCHANGED <<gameMode, players, impostorIndices, currentWord, currentPlayerIndex,
                   isRevealed, round, isPressed, advances, info>>

\* resetGame with VOLVER AL INICIO in the playing view as well
resetGameFromPlaying ==
    /\ gameState \in {"playing", "finished"}
    /\ gameState' = "setup"
    /\ players' = SeedPlayers
    /\ confettiBursts' = 0
    /\ UNCHANGED <<gameMode, impostorIndices, currentWord, currentPlayerIndex,
                   isRevealed, round, isPressed, advances, info>>

\* resetGame starting the round count again
resetGameRestartingRound ==
    /\ gameState = "finished"
    /\ gameState' = "setup"
    /\ players' = SeedPlayers
    /\ round' = 1
    /\ confettiBursts' = 0
    /\ UNCHANGED <<gameMode, impostorIndices, currentWord, currentPlayerIndex,
                   isRevealed, isPressed, advances, info>>

resetGame ==
    /\ gameState = "finished"
    /\ gameState' = "setup"
    /\ players' = SeedPlayers
    /\ confettiBursts' = 0
    /\ UNCHANGED <<gameMode, impostorIndices, currentWord, currentPlayerIndex,
                   isRevealed, round, isPressed, advances, info>>

(***************************************************************************)
(* The program: every handler the rendered views attach.                   *)
(***************************************************************************)
Next ==
    \/ \E newPlayerName \in TypedNames : addPlayer(newPlayerName) /\ UNCHANGED twin
    \/ \E id \in PlayerIds : removePlayer(id) /\ UNCHANGED twin
    \/ \E edit \in NameEdits : edit.id \in PlayerIds /\ updatePlayerName(edit.id, edit.name) /\ UNCHANGED twin
    \/ shufflePlayers /\ UNCHANGED twin
    \/ \E mode \in {"classic", "uncertainty"} : setGameMode(mode) /\ UNCHANGED twin
    \/ startGame /\ UNCHANGED twin
    \/ nextPlayer /\ UNCHANGED twin
    \/ pointerDown /\ UNCHANGED twin
    \/ pointerUp /\ UNCHANGED twin
    \/ resetGame /\ UNCHANGED twin

Spec == Init /\ [][Next]_vars

(***************************************************************************)
(* The drag gesture (handleDragEnd, lines 117-132).  No rendered element   *)
(* attaches the handler, so it is not part of Next; DragSpec applies it to *)
(* drag informations around its thresholds.                                *)
(***************************************************************************)
\* handleDragEnd with the thresholds themselves counted as past the threshold
handleDragEndInclusive(dragInfo) ==
    /\ info' = dragInfo
    /\ IF dragInfo.offset.y <= -50 \/ dragInfo.velocity.y <= -500
       THEN isRevealed' = TRUE
       ELSE IF dragInfo.offset.y >= 30 \/ dragInfo.velocity.y >= 500
            THEN isRevealed' = FALSE
            ELSE isRevealed' = isRevealed
    /\ confettiBursts' = 0
    /\ UNCHANGED <<gameState, gameMode, players, impostorIndices, currentWord,
                   currentPlayerIndex, round, isPressed, advances>>

handleDragEnd(dragInfo) ==
    /\ info' = dragInfo
    /\ IF dragInfo.offset.y < -50 \/ dragInfo.velocity.y < -500
       THEN isRevealed' = TRUE
       ELSE IF dragInfo.offset.y > 30 \/ dragInfo.velocity.y > 500
            THEN isRevealed' = FALSE
            ELSE isRevealed' = isRevealed
    /\ confettiBursts' = 0
    /\ UNCHANGED <<gameState, gameMode, players, impostorIndices, currentWord,
                   currentPlayerIndex, round, isPressed, advances>>

Around(x) == (x - DragSpan) .. (x + DragSpan)

OffsetYs == Around(-50) \cup Around(30) \cup {0}

VelocityYs == Around(-500) \cup Around(500) \cup {0}

DragNext ==
    \E offsetY \in OffsetYs, velocityY \in VelocityYs :
        /\ handleDragEnd([offset |-> [y |-> offsetY], velocity |-> [y |-> velocityY]])
        /\ UNCHANGED twin

DragSpec == Init /\ [][DragNext]_vars

(***************************************************************************)
(* The roster on its own: the handlers of the setup view that edit it.     *)
(***************************************************************************)
RosterNext ==
    \/ \E newPlayerName \in TypedNames : addPlayer(newPlayerName) /\ UNCHANGED twin
    \/ \E id \in PlayerIds : removePlayer(id) /\ UNCHANGED twin
    \/ \E edit \in NameEdits : edit.id \in PlayerIds /\ updatePlayerName(edit.id, edit.name) /\ UNCHANGED twin
    \/ shufflePlayers /\ UNCHANGED twin

RosterSpec == Init /\ [][RosterNext]_vars

(***************************************************************************)
(* The reveal gestures on their own: rounds played with the seed roster,   *)
(* with handleDragEnd applied to the card while a player's turn is shown.  *)
(***************************************************************************)
GestureNext ==
    \/ startGame /\ UNCHANGED twin
    \/ nextPlayer /\ UNCHANGED twin
    \/ pointerDown /\ UNCHANGED twin
    \/ pointerUp /\ UNCHANGED twin
    \/ gameState = "playing" /\ DragNext
    \/ resetGame /\ UNCHANGED twin

GestureSpec == Init /\ [][GestureNext]_vars

(***************************************************************************)
(* Two sessions side by side.  The handlers are written once more as       *)
(* functions of a session record and applied to twin, while the component  *)
(* itself takes the same operation.  The two sessions share every          *)
(* operation and input; each makes its own draw of impostors and word.     *)
(* Rounds are played with the seed roster, renamed or not.                 *)
(***************************************************************************)
\* startGame (lines 55-84): the sessions it can leave from session s
startGameOn(s) ==
    { [s EXCEPT !.impostorIndices = indices,
                !.currentWord = word,
                !.currentPlayerIndex = 0,
                !.gameState = "playing",
                !.isRevealed = FALSE,
                !.isPressed = FALSE,
                !.round = IF s.gameState = "finished" THEN @ + 1 ELSE @] :
          indices \in IF s.gameMode = "classic"
                      THEN ClassicIndices(Len(s.players))
                      ELSE UncertaintyIndices(Len(s.players)),
          word \in RandomWords }

\* nextPlayer (lines 86-100)
nextPlayerOn(s) ==
    IF s.currentPlayerIndex < Len(s.players) - 1
    THEN [s EXCEPT !.currentPlayerIndex = @ + 1,
                   !.isRevealed = FALSE,
                   !.isPressed = FALSE]
    ELSE [s EXCEPT !.gameState = "finished"]

\* resetGame (lines 108-115)
resetGameOn(s) == [s EXCEPT !.gameState = "setup", !.players = SeedPlayers]

\* updatePlayerName (lines 51-53)
updatePlayerNameOn(s, id, name) ==
    [s EXCEPT !.players = [i \in 1 .. Len(s.players) |->
                              IF s.players[i].id = id
                              THEN [s.players[i] EXCEPT !.name = name]
                              ELSE s.players[i]]]

\* what the playing view shows with the card face up at all times
PlayingViewOpenCard(s) ==
    LET impostor == \E i \in 1 .. Len(s.impostorIndices) :
                        s.impostorIndices[i] = s.currentPlayerIndex
    IN  [turn |-> s.players[s.currentPlayerIndex + 1].name,
         card |-> [label |-> "Tu palabra secreta",
                   title |-> IF impostor THEN "Eres el Impostor" ELSE s.currentWord,
                   note |-> IF impostor THEN "No tienes palabra"
                                        ELSE "No dejes que el impostor descubra esta palabra"]]

\* what the playing view shows (lines 293-337): the turn header and the card
PlayingView(s) ==
    LET impostor == \E i \in 1 .. Len(s.impostorIndices) :
                        s.impostorIndices[i] = s.currentPlayerIndex
    IN  [turn |-> s.players[s.currentPlayerIndex + 1].name,
         card |-> IF s.isPressed
                  THEN [label |-> "Tu palabra secreta",
                        title |-> IF impostor THEN "Eres el Impostor" ELSE s.currentWord,
                        note |-> IF impostor THEN "No tienes palabra"
                                             ELSE "No dejes que el impostor descubra esta palabra"]
                  ELSE [label |-> "Contenido oculto", title |-> "", note |-> ""]]

\* the view that renders the button of an operation is the one session s shows
Renders(s, views) == s.gameState \in views

TwinNext ==
    \/ \E edit \in NameEdits :
           /\ edit.id \in PlayerIds
           /\ updatePlayerName(edit.id, edit.name)
           /\ Renders(twin, {"setup"})
           /\ twin' = updatePlayerNameOn(twin, edit.id, edit.name)
    \/ \E mode \in {"classic", "uncertainty"} :
           /\ setGameMode(mode)
           /\ Renders(twin, {"setup"})
           /\ twin' = [twin EXCEPT !.gameMode = mode]
    \/ startGame /\ Renders(twin, {"setup", "finished"}) /\ twin' \in startGameOn(twin)
    \/ nextPlayer /\ Renders(twin, {"playing"}) /\ twin' = nextPlayerOn(twin)
    \/ pointerDown /\ Renders(twin, {"playing"}) /\ twin' = [twin EXCEPT !.isPressed = TRUE]
    \/ pointerUp /\ Renders(twin, {"playing"}) /\ twin' = [twin EXCEPT !.isPressed = FALSE]
    \/ resetGame /\ Renders(twin, {"finished"}) /\ twin' = resetGameOn(twin)

TwinSpec == Init /\ [][TwinNext]_vars

(***************************************************************************)
(* Properties.                                                             *)
(***************************************************************************)
RoundStarted == gameState \in {"playing", "finished"}

ValidIndex(i) == i \in 0 .. Len(players) - 1

\* C1: in every reachable state the roster holds at least 3 players.
RosterFloor == Len(players) >= 3

\* C2: a round started in classic mode stores exactly one impostor position,
\* and it is a position of the roster.
ClassicAssignment ==
    (RoundStarted /\ gameMode = "classic") =>
        /\ Len(impostorIndices) = 1
        /\ ValidIndex(impostorIndices[1])

\* a classic round of four players whose impostor is the last player
ClassicAssignmentWitness ==
    /\ gameState = "playing"
    /\ gameMode = "classic"
    /\ Len(players) = 4
    /\ impostorIndices = <<3>>

\* C3: a round started in uncertainty mode stores between 1 and n - 1 impostor
\* positions, pairwise distinct, each a position of the roster.
UncertaintyAssignment ==
    (RoundStarted /\ gameMode = "uncertainty") =>
        /\ 1 <= Len(impostorIndices)
        /\ Len(impostorIndices) <= Len(players) - 1
        /\ \A i \in 1 .. Len(impostorIndices) : ValidIndex(impostorIndices[i])
        /\ \A i, j \in 1 .. Len(impostorIndices) :
               i # j => impostorIndices[i] # impostorIndices[j]

\* an uncertainty round of four players with three impostors, drawn out of order
UncertaintyAssignmentWitness ==
    /\ gameState = "playing"
    /\ gameMode = "uncertainty"
    /\ Len(players) = 4
    /\ impostorIndices = <<3, 0, 2>>

\* C4: after k < n calls of nextPlayer since the round start the phase is still
\* playing and the current player is k; after the n-th call the phase is finished.
TurnTraversal ==
    RoundStarted =>
        IF advances < Len(players)
        THEN gameState = "playing" /\ currentPlayerIndex = advances
        ELSE gameState = "finished" /\ advances = Len(players)

\* the last player's turn, reached by n - 1 calls
TurnTraversalWitness ==
    /\ gameState = "playing"
    /\ Len(players) = 4
    /\ advances = 3
    /\ currentPlayerIndex = 3

\* C5: the round counter starts at 1; a round start from finished adds exactly 1
\* to it, and no other step changes it.
RoundCounting ==
    /\ round = 1
    /\ [][round' = IF gameState = "finished" /\ gameState' = "playing"
                   THEN round + 1
                   ELSE round]_vars

\* a second round being played
RoundCountingWitness == gameState = "playing" /\ round = 2

\* C6: handleDragEnd reveals when the offset is below -50 or the velocity below
\* -500; otherwise hides when the offset is above 30 or the velocity above 500;
\* otherwise leaves isRevealed as it was.
DragThresholds ==
    [][LET up == info'.offset.y < -50 \/ info'.velocity.y < -500
           down == info'.offset.y > 30 \/ info'.velocity.y > 500
       IN  isRevealed' = IF up THEN TRUE ELSE IF down THEN FALSE ELSE isRevealed]_vars

\* a drag past an upward and a downward threshold at once, which revealed
DragThresholdsWitness ==
    /\ info.offset.y < -50
    /\ info.velocity.y > 500
    /\ isRevealed

\* C7: while playing, the current player and every impostor position are
\* positions of the roster.
PlayingIndicesValid ==
    gameState = "playing" =>
        /\ ValidIndex(currentPlayerIndex)
        /\ \A i \in 1 .. Len(impostorIndices) : ValidIndex(impostorIndices[i])

\* the turn of the last of four players, who is an impostor
PlayingIndicesValidWitness ==
    /\ gameState = "playing"
    /\ Len(players) = 4
    /\ currentPlayerIndex = 3
    /\ \E i \in 1 .. Len(impostorIndices) : impostorIndices[i] = 3

\* C8: no two players of the roster share an id.
UniqueIds ==
    \A i, j \in 1 .. Len(players) : i # j => players[i].id # players[j].id

\* C9: the confetti is fired by exactly the steps that take the phase from
\* playing to finished, once by each.
ConfettiOncePerRound ==
    [][confettiBursts' = IF gameState = "playing" /\ gameState' = "finished"
                         THEN 1
                         ELSE 0]_vars

\* a round just completed
ConfettiOncePerRoundWitness ==
    /\ gameState = "finished"
    /\ confettiBursts = 1
    /\ advances = Len(players)

\* C10, as stated: a reset leaves the phase setup, isRevealed and isPressed false
\* and the roster equal to the seed.
ResetClearsFlags ==
    [][(gameState # "setup" /\ gameState' = "setup") =>
           /\ ~isRevealed'
           /\ ~isPressed'
           /\ players' = SeedPlayers]_vars

\* C10, amended: a reset leaves the phase setup and the roster equal to the
\* seed, and leaves isRevealed and isPressed as they were.
ResetRestoresSeed ==
    [][(gameState # "setup" /\ gameState' = "setup") =>
           /\ players' = SeedPlayers
           /\ isRevealed' = isRevealed
           /\ isPressed' = isPressed]_vars

\* the setup view after a reset of a round that ended with the button held
ResetRestoresSeedWitness ==
    /\ gameState = "setup"
    /\ advances > 0
    /\ isPressed
    /\ players = SeedPlayers

PressMirrorsPointer ==
    [][/\ gameState = "playing" => (ENABLED pointerDown /\ ENABLED pointerUp)
       /\ pointerDown => (isPressed' = TRUE /\ isRevealed' = isRevealed)
       /\ pointerUp => (isPressed' = FALSE /\ isRevealed' = isRevealed)
       /\ (isPressed' # isPressed /\ gameState' = gameState /\ advances' = advances)
              => isRevealed' = isRevealed
       /\ handleDragEnd(info') => isPressed' = isPressed]_vars

\* the button held while the card is revealed by a drag
PressMirrorsPointerWitness ==
    /\ gameState = "playing"
    /\ isPressed
    /\ isRevealed

\* how many times player p is in roster s
Occurrences(s, p) == Cardinality({ i \in 1 .. Len(s) : s[i] = p })

SamePlayers(s, t) ==
    /\ Len(s) = Len(t)
    /\ \A i \in 1 .. Len(s) : Occurrences(t, s[i]) = Occurrences(s, s[i])

\* C13: a shuffle leaves a roster of the same length holding the same players
\* (id and name), each as many times as before.
ShufflePermutes == [][shufflePlayers => SamePlayers(players, players')]_vars

\* four players in an order only a shuffle gives, one of them renamed
ShufflePermutesWitness ==
    /\ Len(players) = 4
    /\ players[1].id = <<"3">>
    /\ players[3] = [id |-> <<"1">>, name |-> <<"A">>]

\* roster s without the player at position at (1-based)
WithoutPosition(s, at) ==
    [i \in 1 .. Len(s) - 1 |-> IF i < at THEN s[i] ELSE s[i + 1]]

\* C14: a removal leaves a roster of 3 or fewer as it is; from a larger roster
\* it takes out exactly one player, who has the id given, and keeps the others
\* in their order.
RemoveTakesOne ==
    [][\A id \in PlayerIds :
           removePlayer(id) =>
               IF Len(players) <= 3
               THEN players' = players
               ELSE \E at \in 1 .. Len(players) :
                        /\ players[at].id = id
                        /\ players' = WithoutPosition(players, at)]_vars

Blank(name) == \A i \in 1 .. Len(name) : name[i] = " "

\* trimmed is name without the spaces before its first and after its last
\* non-space character
IsTrimOf(trimmed, name) ==
    \E first, last \in 1 .. Len(name) :
        /\ name[first] # " "
        /\ name[last] # " "
        /\ \A i \in 1 .. Len(name) : (i < first \/ i > last) => name[i] = " "
        /\ trimmed = SubSeq(name, first, last)

\* C15: an add with a blank name leaves the roster as it is; any other add
\* puts exactly one player, named with the trimmed name, after the players
\* already there, who stay as they were and in their order.
AddAppendsTrimmed ==
    [][\A newPlayerName \in TypedNames :
           addPlayer(newPlayerName) =>
               IF Blank(newPlayerName)
               THEN players' = players
               ELSE /\ Len(players') = Len(players) + 1
                    /\ SubSeq(players', 1, Len(players)) = players
                    /\ IsTrimOf(players'[Len(players')].name, newPlayerName)]_vars

\* the fourth player came from an add of " A " after the three seed players
AddAppendsTrimmedWitness ==
    /\ Len(players) = 4
    /\ SubSeq(players, 1, 3) = SeedPlayers
    /\ players[4].name = <<"A">>
    /\ players[4].id # <<"1">>

\* an assignment a round of n players in the given mode may store
AssignmentFor(indices, n, mode) ==
    /\ Len(indices) >= 1
    /\ mode = "classic" => Len(indices) = 1
    /\ mode = "uncertainty" => Len(indices) <= n - 1
    /\ \A i \in 1 .. Len(indices) : indices[i] \in 0 .. n - 1
    /\ \A i, j \in 1 .. Len(indices) : indices[i] = indices[j] => i = j

\* C16: every step that enters the playing phase, from setup or from finished,
\* leaves the current player at 0, isRevealed and isPressed false, and an
\* assignment that fits the roster and the mode of that moment, whatever was
\* stored before; the roster and the mode are the ones before the step.
StartRoundResets ==
    [][(gameState # "playing" /\ gameState' = "playing") =>
           /\ gameState \in {"setup", "finished"}
           /\ currentPlayerIndex' = 0
           /\ isRevealed' = FALSE
           /\ isPressed' = FALSE
           /\ players' = players
           /\ gameMode' = gameMode
           /\ AssignmentFor(impostorIndices', Len(players), gameMode)]_vars

\* a second round just started, in uncertainty mode, with two impostors of four
StartRoundResetsWitness ==
    /\ gameState = "playing"
    /\ advances = 0
    /\ round = 2
    /\ gameMode = "uncertainty"
    /\ Len(players) = 4
    /\ Len(impostorIndices) = 2
    /\ ~isPressed

\* C17: the word list is not empty, and the word of a started round is one of
\* its elements.
WordFromList ==
    /\ Len(WORDS) > 0
    /\ RoundStarted => \E w \in 1 .. Len(WORDS) : currentWord = WORDS[w]

\* a round whose word is the last of the list
WordFromListWitness ==
    /\ gameState = "playing"
    /\ currentWord = WORDS[Len(WORDS)]
    /\ gameMode = "uncertainty"

TurnStartsHidden ==
    [][(gameState = "playing" /\ gameState' = "playing" /\ advances' = advances + 1) =>
           /\ currentPlayerIndex' = currentPlayerIndex + 1
           /\ isRevealed' = FALSE
           /\ isPressed' = FALSE]_vars

\* the second player's turn in the first round, hidden, when the latest drag
\* (made on the first player's turn) was a reveal
TurnStartsHiddenWitness ==
    /\ gameState = "playing"
    /\ round = 1
    /\ advances = 1
    /\ currentPlayerIndex = 1
    /\ info.offset.y < -50
    /\ ~isRevealed
    /\ ~isPressed

PhaseChanges ==
    { <<"setup", "playing">>, <<"playing", "finished">>,
      <<"finished", "playing">>, <<"finished", "setup">> }

\* C20: the phase changes only from setup to playing, from playing to finished,
\* from finished to playing and from finished to setup; playing is left only by
\* an advance made on the last player.
PhaseOrder ==
    [][gameState' # gameState =>
           /\ <<gameState, gameState'>> \in PhaseChanges
           /\ gameState = "playing" =>
                  /\ currentPlayerIndex = Len(players) - 1
                  /\ advances' = advances + 1]_vars

\* back on the setup screen after two rounds: all four changes have happened
PhaseOrderWitness ==
    /\ gameState = "setup"
    /\ round = 2
    /\ advances >= 3

\* C21: the step from finished back to setup changes nothing but the phase and
\* the roster; a round start from setup keeps the round counter; and the mode
\* changes only by a step made on the setup screen that stays there.
ResetKeepsRoundAndMode ==
    [][/\ (gameState = "finished" /\ gameState' = "setup") =>
              UNCHANGED <<round, gameMode, impostorIndices, currentWord,
                          currentPlayerIndex, isRevealed, isPressed>>
       /\ (gameState = "setup" /\ gameState' = "playing") =>
              UNCHANGED <<round, gameMode>>
       /\ gameMode' # gameMode => (gameState = "setup" /\ gameState' = "setup")]_vars

\* the setup screen after a reset that ended a second round of four players in
\* uncertainty mode: the counter is still 2 and the mode still uncertainty
ResetKeepsRoundAndModeWitness ==
    /\ gameState = "setup"
    /\ round = 2
    /\ gameMode = "uncertainty"
    /\ players = SeedPlayers
    /\ Len(impostorIndices) = 3

\* C22: the roster changes only by a step made on the setup screen or by the
\* reset that returns to it, so a round start and every step of a round keep
\* it; and every step that ends in the finished phase leaves the current
\* player on the last position and every impostor position inside the roster.
RosterFixedDuringRound ==
    [][/\ players' # players =>
              \/ gameState = "setup" /\ gameState' = "setup"
              \/ gameState = "finished" /\ gameState' = "setup"
       /\ gameState' = "finished" =>
              /\ currentPlayerIndex' = Len(players') - 1
              /\ \A i \in 1 .. Len(impostorIndices') :
                     impostorIndices'[i] \in 0 .. Len(players') - 1]_vars

\* the end of a round of four players put in another order before the start,
\* with two impostors, the first of them the last player
RosterFixedDuringRoundWitness ==
    /\ gameState = "finished"
    /\ Len(players) = 4
    /\ players[1].id # <<"1">>
    /\ currentPlayerIndex = 3
    /\ Len(impostorIndices) = 2
    /\ impostorIndices[1] = 3

\* what a session holds apart from the drawn impostors and word
Undrawn(s) == [s EXCEPT !.impostorIndices = <<>>, !.currentWord = ""]

\* what the drawn assignment says to the current player of session s
OwnSecret(s) ==
    IF \E i \in 1 .. Len(s.impostorIndices) : s.impostorIndices[i] = s.currentPlayerIndex
    THEN "impostor"
    ELSE s.currentWord

\* C23: two sessions given the same operations, each with its own draw of
\* impostors and word, agree on everything but the draw; while a turn is
\* shown with isPressed false they show the same thing; and with isPressed
\* true they show the same thing whenever the draws say the same to the
\* current player.
HiddenCardLeaksNothing ==
    /\ Undrawn(twin) = Undrawn(Session)
    /\ (gameState = "playing" /\ ~isPressed) =>
           PlayingView(twin) = PlayingView(Session)
    /\ (gameState = "playing" /\ isPressed /\ OwnSecret(twin) = OwnSecret(Session)) =>
           PlayingView(twin) = PlayingView(Session)

\* the second player's turn, card hidden, in two sessions that drew different
\* words and where that player is the impostor in one session only
HiddenCardLeaksNothingWitness ==
    /\ gameState = "playing"
    /\ currentPlayerIndex = 1
    /\ ~isPressed
    /\ impostorIndices = <<1>>
    /\ twin.impostorIndices = <<2>>
    /\ twin.currentWord # currentWord

====
